---- MODULE Spec2Model ----
(***************************************************************************)
(* Model of river.anomaly.ILOF (src/river/anomaly/ilof.py): the            *)
(* incremental Local Outlier Factor detector.                              *)
(*                                                                         *)
(* Observations are one-feature vectors {"x": v}; an observation is        *)
(* modelled by its coordinate v, and the default distance (Minkowski,      *)
(* p = 2) of two such vectors is |a - b|.  Python dicts keyed by identity  *)
(* are functions, Python lists are sequences, lrd and LOF values are exact *)
(* fractions <<numerator, denominator>> in lowest terms.  Identity i of    *)
(* the code is position i + 1 of the sequence nn.                          *)
(***************************************************************************)
EXTENDS Integers, Sequences, FiniteSets, TLC

\* ---- bounds of the model ------------------------------------------------
MaxCoord == 2
MaxCoordWide == 3
MaxStore == 4
MaxBatch == 2
MaxK == 2
MaxWindow == 2
\* largest warm_up of the configurations that reach the index
MaxWarmUp == 3
\* last coordinate of the line of observations that are learned once each
MaxLine == 4
\* number of distance steps in one unit of length of the two-dimensional
\* observations: their distances are kept to that precision
Unit == 100
\* longest buffer of pending observations a call may leave behind
MaxBuf == MaxBatch

\* ---- program constants --------------------------------------------------
\* default of the warm_up parameter
DefaultWarmUp == 400
\* default of the verbose parameter
verbose == TRUE
\* encoding of float("inf"), the initial k-distance of a slot
inf == -1
\* encoding of the list [] that expand_objects stores in lrd / lof slots
EmptyList == <<>>

Points == 0..MaxCoord
\* the observations of the learn-only specification
WidePoints == 0..MaxCoordWide

VARIABLES X_batch, X_score, dist_dict, neighborhoods, rev_neighborhoods,
          k_dist, reach_dist, lof, local_reach, nn, count,
          n_neighbors, warm_up, last, raised

vars == <<X_batch, X_score, dist_dict, neighborhoods, rev_neighborhoods,
          k_dist, reach_dist, lof, local_reach, nn, count,
          n_neighbors, warm_up, last, raised>>

\* ---- Python built-ins ---------------------------------------------------
Min2(a, b) == IF a <= b THEN a ELSE b

\* max() and <= on floats that may be float("inf")
PyMax(a, b) == IF a = inf \/ b = inf THEN inf ELSE IF a >= b THEN a ELSE b

PyLeq(a, b) == IF b = inf THEN TRUE ELSE IF a = inf THEN FALSE ELSE a <= b

\* d.update(e) on a dict, and a dict built by a comprehension
DictUpdate(d, e) == e @@ d

NewDict(e) == e @@ <<>>

\* range(a, b) as a set
Range(a, b) == {i \in a..(b - 1) : TRUE}

SeqElems(s) == {s[i] : i \in 1..Len(s)}

\* the elements of a set of small ints in the order Python iterates them
RECURSIVE SetToSeq(_)
SetToSeq(S) ==
  IF S = {} THEN <<>>
  ELSE LET m == CHOOSE a \in S : \A b \in S : a <= b
       IN <<m>> \o SetToSeq(S \ {m})

\* sorted(d.values())
RECURSIVE SortedBy(_, _)
SortedBy(d, keys) ==
  IF keys = {} THEN <<>>
  ELSE LET m == CHOOSE a \in keys : \A b \in keys : d[a] <= d[b]
       IN <<d[m]>> \o SortedBy(d, keys \ {m})

sorted_values(d) == SortedBy(d, DOMAIN d)

\* sum() of a list of distances, any of which may be float("inf")
RECURSIVE SumDist(_)
SumDist(s) ==
  IF s = <<>> THEN 0
  ELSE LET r == SumDist(Tail(s))
       IN IF Head(s) = inf \/ r = inf THEN inf ELSE Head(s) + r

\* ---- exact fractions ----------------------------------------------------
RECURSIVE GCD(_, _)
GCD(a, b) == IF b = 0 THEN a ELSE GCD(b, a % b)

Frac(n, d) == LET g == GCD(n, d) IN <<n \div g, d \div g>>

FracAdd(p, q) == Frac(p[1] * q[2] + q[1] * p[2], p[2] * q[2])

FracDiv(p, q) == Frac(p[1] * q[2], p[2] * q[1])

RECURSIVE SumFrac(_)
SumFrac(s) == IF s = <<>> THEN <<0, 1>> ELSE FracAdd(Head(s), SumFrac(Tail(s)))

\* ---- distance_func ------------------------------------------------------
\* An observation is the number x + Stride * y of the vector {x, y}; the
\* observations below Stride are the vectors {x} on a line.
Stride == 10 * Unit + 1

Vec(x, y) == x + Stride * y

AbsDiff(a, b) == IF a >= b THEN a - b ELSE b - a

\* the square root of dx^2 + dy^2, rounded down to a whole number of steps
Hypot(dx, dy) ==
  IF dy = 0 THEN dx
  ELSE IF dx = 0 THEN dy
  ELSE CHOOSE r \in (IF dx >= dy THEN dx ELSE dy)..(dx + dy) :
         r * r <= dx * dx + dy * dy /\ dx * dx + dy * dy < (r + 1) * (r + 1)

\* the Euclidean distance (Minkowski, p = 2) of two observations
distance_func(a, b) ==
  Hypot(AbsDiff(a % Stride, b % Stride), AbsDiff(a \div Stride, b \div Stride))

\* ---- check_equal --------------------------------------------------------
\* "x == y.item[0] for y in Y": x equals the vector of a stored entry
StoredVectors(Y) == {Y[i][1] : i \in 1..Len(Y)}

\* mutant: the batch is compared with the stored identities (item[1])
check_equal_by_identity(X, Y) ==
  LET result == SelectSeq(X, LAMBDA x : x \notin {Y[i][2] : i \in 1..Len(Y)})
  IN [result |-> result, equal |-> Len(X) - Len(result)]

check_equal(X, Y) ==
  LET result == SelectSeq(X, LAMBDA x : x \notin StoredVectors(Y))
  IN [result |-> result, equal |-> Len(X) - Len(result)]

\* ---- expand_objects -----------------------------------------------------
\* mutant: self.count is increased once per call, not once per particle
AppendParticlesOneCount(nn0, new_particles, cnt) ==
  [nn |-> nn0 \o [i \in 1..Len(new_particles) |-> <<new_particles[i], cnt>>],
   count |-> cnt + 1]

\* lines 368-370: every new particle is appended with the current value of
\* self.count as its identity, and self.count is increased by one
AppendParticles(nn0, new_particles, cnt) ==
  [nn |-> nn0 \o [i \in 1..Len(new_particles) |-> <<new_particles[i], cnt + i - 1>>],
   count |-> cnt + Len(new_particles)]

\* The containers are passed by reference and changed in place; the record
\* returned holds the objects after the call (cnt is self.count).
expand_objects(new_particles, nn0, cnt, neighborhoods0, rev_neighborhoods0, k_dist0, reach_dist0, dist_dict0, local_reach0, lof0) ==
  LET n_x == Len(nn0)
      n_new == Len(new_particles)
      all == Range(0, n_x + n_new)
      fresh == Range(n_x, n_x + n_new)
      appended == AppendParticles(nn0, new_particles, cnt)
  IN [n_x |-> n_x,
      n_new |-> n_new,
      nn |-> appended.nn,
      count |-> appended.count,
      neighborhoods |-> DictUpdate(neighborhoods0, [i \in all |-> <<>>]),
      rev_neighborhoods |-> DictUpdate(rev_neighborhoods0, [i \in all |-> <<>>]),
      k_dist |-> DictUpdate(k_dist0, [i \in all |-> inf]),
      reach_dist |-> DictUpdate(reach_dist0, [i \in fresh |-> <<>>]),
      dist_dict |-> DictUpdate(dist_dict0, [i \in fresh |-> <<>>]),
      local_reach |-> DictUpdate(local_reach0, [i \in fresh |-> EmptyList]),
      lof |-> DictUpdate(lof0, [i \in fresh |-> EmptyList])]

\* ---- calculate_dist -----------------------------------------------------
\* engine.search(item, n_neighbors): the n_neighbors stored entries nearest
\* to item (item itself included, it was appended before), nearest first,
\* as pairs <<identity, distance>>.
RECURSIVE NearestFirst(_, _, _)
NearestFirst(X, x, ids) ==
  IF ids = {} THEN <<>>
  ELSE LET m == CHOOSE a \in ids : \A b \in ids :
                  \/ distance_func(x, X[a + 1][1]) < distance_func(x, X[b + 1][1])
                  \/ /\ distance_func(x, X[a + 1][1]) = distance_func(x, X[b + 1][1])
                     /\ a <= b
       IN <<(<<X[m + 1][2], distance_func(x, X[m + 1][1])>>)>>
            \o NearestFirst(X, x, ids \ {m})

search(X, item, k) ==
  LET all == NearestFirst(X, item[1], Range(0, Len(X)))
  IN SubSeq(all, 1, Min2(k, Len(all)))

\* mutant: brute force is kept until the store holds more than warm_up
\* observations
calculate_dist_exceeding(n_x, n_new, X, k) ==
  IF Len(X) <= warm_up
  THEN UNION {{<<i, j, distance_func(X[i + 1][1], X[j + 1][1])>> : j \in Range(0, i)}
                : i \in Range(n_x, n_x + n_new)}
  ELSE UNION {
         LET found == search(X, X[i + 1], k)
         IN {<<X[i + 1][2], found[p][1], found[p][2]>> :
               p \in {q \in 1..Len(found) : X[i + 1][2] # found[q][1]}}
         : i \in Range(n_x, n_x + n_new)}

\* The list of [i, j, d] triples, as the set of its entries: every pair
\* occurs once, so the order of the assignments that consume it is immaterial.
calculate_dist(n_x, n_new, X, k) ==
  IF Len(X) < warm_up
  THEN UNION {{<<i, j, distance_func(X[i + 1][1], X[j + 1][1])>> : j \in Range(0, i)}
                : i \in Range(n_x, n_x + n_new)}
  ELSE UNION {
         LET found == search(X, X[i + 1], k)
         IN {<<X[i + 1][2], found[p][1], found[p][2]>> :
               p \in {q \in 1..Len(found) : X[i + 1][2] # found[q][1]}}
         : i \in Range(n_x, n_x + n_new)}

\* ---- loops that stop at the first exception ----------------------------
\* results maps every iteration of a loop (numbered in loop order) to what
\* it computes: err ("none" or the exception it raises) and value.  The
\* loop runs the iterations before the first failing one.
Failing(results) == {i \in DOMAIN results : results[i].err # "none"}

Done(results) == {i \in DOMAIN results : \A f \in Failing(results) : i < f}

LoopError(results) ==
  IF Failing(results) = {} THEN "none"
  ELSE results[CHOOSE f \in Failing(results) : \A g \in Failing(results) : f <= g].err

\* ---- initial_calculations -----------------------------------------------
\* lines 313-315: dist_dict[a][b] = dist_dict[b][a] = d for every triple
AddDistances(dist_dict0, new_distances) ==
  DictUpdate(dist_dict0,
    [a \in DOMAIN dist_dict0 |->
       DictUpdate(dist_dict0[a],
         [b \in {t[2] : t \in {u \in new_distances : u[1] = a}}
                \cup {t[1] : t \in {u \in new_distances : u[2] = a}} |->
            (CHOOSE t \in new_distances : {t[1], t[2]} = {a, b})[3]])])

\* lst[idx] of Python, negative idx counting from the end; an index out of
\* range raises IndexError
PyIndex(lst, idx) ==
  IF idx >= Len(lst) \/ idx < 0 - Len(lst)
  THEN [err |-> "IndexError", value |-> 0]
  ELSE [err |-> "none", value |-> lst[(IF idx < 0 THEN idx + Len(lst) ELSE idx) + 1]]

\* mutant: the distances are counted from the largest
KthLargest(inner_dict, k) ==
  PyIndex(sorted_values(inner_dict), 0 - Min2(k, Cardinality(DOMAIN inner_dict)))

\* line 319: sorted(inner_dict.values())[min(k, len(inner_dict.values())) - 1]
KthSmallest(inner_dict, k) ==
  PyIndex(sorted_values(inner_dict), Min2(k, Cardinality(DOMAIN inner_dict)) - 1)

\* lines 318-319: "for i, inner_dict in enumerate(dist_dict.values())", with
\* results[p] the value line 319 computes for the p-th inner dict.  The loop
\* stops at the first IndexError, leaving the k-distances it set.
KDistAssigned(results, k_distances) ==
  [k_dist |-> DictUpdate(k_distances,
                         [i \in {p - 1 : p \in Done(results)} |-> results[i + 1].value]),
   err |-> LoopError(results)]

\* keys is the key sequence of dist_dict
KDistLoop(keys, k_distances, dist_dict0, k) ==
  KDistAssigned(NewDict([p \in 1..Len(keys) |-> KthSmallest(dist_dict0[keys[p]], k)]),
                k_distances)

\* mutant: only the entries nearer than the k-distance are kept
PruneBelow(dist_dict0, k_distances) ==
  NewDict([a \in DOMAIN dist_dict0 |->
     NewDict([b \in {c \in DOMAIN dist_dict0[a] :
                       ~PyLeq(k_distances[a], dist_dict0[a][c])}
                |-> dist_dict0[a][b]])])

\* mutant: an entry at the k-distance is kept only when no entry is nearer
PruneTies(dist_dict0, k_distances) ==
  NewDict([a \in DOMAIN dist_dict0 |->
     NewDict([b \in {c \in DOMAIN dist_dict0[a] :
                       /\ PyLeq(dist_dict0[a][c], k_distances[a])
                       /\ \/ dist_dict0[a][c] # k_distances[a]
                          \/ \A e \in DOMAIN dist_dict0[a] :
                               PyLeq(k_distances[a], dist_dict0[a][e])}
                |-> dist_dict0[a][b]])])

\* mutant: an entry is compared with the k-distance of its other end
PruneByOtherEnd(dist_dict0, k_distances) ==
  NewDict([a \in DOMAIN dist_dict0 |->
     NewDict([b \in {c \in DOMAIN dist_dict0[a] : PyLeq(dist_dict0[a][c], k_distances[c])}
                |-> dist_dict0[a][b]])])

\* lines 322-323: keep the entries not farther than the k-distance
PruneDistances(dist_dict0, k_distances) ==
  NewDict([a \in DOMAIN dist_dict0 |->
     NewDict([b \in {c \in DOMAIN dist_dict0[a] : PyLeq(dist_dict0[a][c], k_distances[a])}
                |-> dist_dict0[a][b]])])

\* lines 326-327: the keys of every pruned inner dict, in dict order (inner
\* dicts gain keys in increasing identity order)
NewNeighborhoods(neighborhoods0, dist_dict0) ==
  DictUpdate(neighborhoods0, [a \in DOMAIN dist_dict0 |-> SetToSeq(DOMAIN dist_dict0[a])])

\* mutant: the neighbors of n are appended to the reverse neighborhood of n
RevAppendSwapped(particles, neighborhoods0, n) ==
  IF n \in SeqElems(particles) THEN neighborhoods0[n] ELSE <<>>

\* lines 330-332: what the two loops append to rev_neighborhoods[n]: every
\* particle that has n in its neighbor list, in the order of the outer loop
\* (a neighbor list holds no identity twice: it is the key list of a dict)
RevAppendNeighbors(particles, neighborhoods0, n) ==
  SelectSeq(particles, LAMBDA p : n \in SeqElems(neighborhoods0[p]))

RevLoop(rev, particles, neighborhoods0) ==
  DictUpdate(rev,
    [n \in UNION {SeqElems(neighborhoods0[p]) : p \in SeqElems(particles)} |->
       rev[n] \o RevAppendNeighbors(particles, neighborhoods0, n)])

\* lines 329-334: the reverse neighborhoods of the new neighborhoods nbh
WithNeighborhoods(nbh, rev_neighborhoods0, k_distances, dist1, dist2) ==
  [err |-> "none", neighborhoods |-> nbh,
   rev_neighborhoods |-> RevLoop(rev_neighborhoods0, SetToSeq(DOMAIN nbh), nbh),
   k_dist |-> k_distances, dist_dict |-> dist1, dist_ret |-> dist2]

\* lines 325-334 on the pruned dict dist2
AfterPrune(dist1, dist2, k_distances, neighborhoods0, rev_neighborhoods0) ==
  WithNeighborhoods(NewNeighborhoods(neighborhoods0, dist2), rev_neighborhoods0,
                    k_distances, dist1, dist2)

\* lines 321-334 on the dict dist1 that holds the new distances, kd being
\* the result of the k-distance loop
AfterDistances(dist1, kd, neighborhoods0, rev_neighborhoods0) ==
  IF kd.err # "none"
  THEN [err |-> kd.err, neighborhoods |-> neighborhoods0,
        rev_neighborhoods |-> rev_neighborhoods0, k_dist |-> kd.k_dist,
        dist_dict |-> dist1, dist_ret |-> dist1]
  ELSE AfterPrune(dist1, PruneDistances(dist1, kd.k_dist), kd.k_dist,
                  neighborhoods0, rev_neighborhoods0)

\* lines 317-334
WithDistances(dist1, neighborhoods0, rev_neighborhoods0, k_distances0, k) ==
  AfterDistances(dist1, KDistLoop(SetToSeq(DOMAIN dist1), k_distances0, dist1, k),
                 neighborhoods0, rev_neighborhoods0)

\* The record holds the objects after the call: dist_dict is the dict the
\* caller passed in (changed in place by lines 313-315), dist_ret the new
\* dict the function returns; the other containers are changed in place.
\* An IndexError of line 319 ends the call before any neighborhood is set.
\* new_distances is the list line 310 binds, kept in the record for the
\* properties.
FromDistances(new_distances, neighborhoods0, rev_neighborhoods0, k_distances0, dist_dict0, k) ==
  WithDistances(AddDistances(dist_dict0, new_distances),
                neighborhoods0, rev_neighborhoods0, k_distances0, k)
    @@ [new_distances |-> new_distances]

initial_calculations(X, n_x, n_new, neighborhoods0, rev_neighborhoods0, k_distances0, dist_dict0, k) ==
  FromDistances(calculate_dist(n_x, n_new, X, k),
                neighborhoods0, rev_neighborhoods0, k_distances0, dist_dict0, k)

\* ---- define_sets --------------------------------------------------------
\* "for x in todo: acc = acc | set(rev_neighborhoods[x])"
UnionRev(acc, todo, rev) == acc \cup UNION {SeqElems(rev[x]) : x \in todo}

\* mutant: the lrd set stops at the reverse neighbors of the new points
define_sets_near(n_x, n_new, neighborhoods0, rev_neighborhoods0) ==
  LET Set_new_points == Range(n_x, n_x + n_new)
      Set_rev_neighbors == UnionRev({}, Set_new_points, rev_neighborhoods0)
      Set_upd_lrd == UnionRev(Set_rev_neighbors, Set_rev_neighbors, rev_neighborhoods0)
                       \cup Set_new_points
  IN [Set_new_points |-> Set_new_points, Set_rev_neighbors |-> Set_rev_neighbors,
      Set_upd_lrd |-> Set_rev_neighbors \cup Set_new_points,
      Set_upd_lof |-> UnionRev(Set_upd_lrd, Set_upd_lrd, rev_neighborhoods0)]

\* mutant: the LOF set stops at the lrd set (one hop short)
define_sets_shallow(n_x, n_new, neighborhoods0, rev_neighborhoods0) ==
  LET Set_new_points == Range(n_x, n_x + n_new)
      Set_rev_neighbors == UnionRev({}, Set_new_points, rev_neighborhoods0)
      Set_upd_lrd == UnionRev(Set_rev_neighbors, Set_rev_neighbors, rev_neighborhoods0)
                       \cup Set_new_points
  IN [Set_new_points |-> Set_new_points, Set_rev_neighbors |-> Set_rev_neighbors,
      Set_upd_lrd |-> Set_upd_lrd, Set_upd_lof |-> Set_upd_lrd]

define_sets(n_x, n_new, neighborhoods0, rev_neighborhoods0) ==
  LET Set_new_points == Range(n_x, n_x + n_new)
      Set_rev_neighbors == UnionRev({}, Set_new_points, rev_neighborhoods0)
      Set_upd_lrd == UnionRev(Set_rev_neighbors, Set_rev_neighbors, rev_neighborhoods0)
                       \cup Set_new_points
      Set_upd_lof == UnionRev(Set_upd_lrd, Set_upd_lrd, rev_neighborhoods0)
  IN [Set_new_points |-> Set_new_points, Set_rev_neighbors |-> Set_rev_neighbors,
      Set_upd_lrd |-> Set_upd_lrd, Set_upd_lof |-> Set_upd_lof]

\* ---- calc_reach_dist_newpoints / calc_reach_dist_otherpoints -------------
\* reach_dist[i][j] = max(dist_dict[i][j], k_dist[j]) for every pair <<i, j>>
\* of pairs; the value assigned reads dist_dict and k_dist alone, so the
\* order of the assignments is immaterial
SetReach(reach, pairs, dist_dict0, k_dist0) ==
  DictUpdate(reach,
    [i \in {p[1] : p \in pairs} |->
       DictUpdate(reach[i],
         [j \in {p[2] : p \in {q \in pairs : q[1] = i}} |->
            PyMax(dist_dict0[i][j], k_dist0[j])])])

\* lines 416-420: the pairs <<c, j>> for j in neighborhoods[c] and <<j, c>>
\* for j in rev_neighborhoods[c]
calc_reach_dist_newpoints(Set, neighborhoods0, rev_neighborhoods0, reach_dist0, dist_dict0, k_dist0) ==
  SetReach(reach_dist0,
           UNION {{<<c, j>> : j \in SeqElems(neighborhoods0[c])}
                    \cup {<<j, c>> : j \in SeqElems(rev_neighborhoods0[c])} : c \in Set},
           dist_dict0, k_dist0)

\* mutant: the reachability distances towards the reverse neighbors of the
\* new identities are left as they are
calc_reach_dist_otherpoints_skipped(Set, neighborhoods0, rev_neighborhoods0, reach_dist0, dist_dict0, k_dist0) ==
  reach_dist0

\* lines 427-429: the pairs <<i, j>> for i in rev_neighborhoods[j]
calc_reach_dist_otherpoints(Set, neighborhoods0, rev_neighborhoods0, reach_dist0, dist_dict0, k_dist0) ==
  SetReach(reach_dist0,
           UNION {{<<i, j>> : i \in SeqElems(rev_neighborhoods0[j])} : j \in Set},
           dist_dict0, k_dist0)

\* ---- calc_local_reach_dist ----------------------------------------------
\* len(neighborhoods[i]) / sum(...) for the sum total: a zero sum raises
\* ZeroDivisionError, an infinite one gives 0.0
LrdQuotient(n, total) ==
  IF total = 0 THEN [err |-> "ZeroDivisionError", value |-> EmptyList]
  ELSE IF total = inf THEN [err |-> "none", value |-> <<0, 1>>]
  ELSE [err |-> "none", value |-> Frac(n, total)]

\* line 436: len(neighborhoods[i]) / sum([reach_dist[i][j] for j in neighborhoods[i]])
\* reach_dist[i][j] raises KeyError for a neighbor j that has no entry, which
\* happens when an earlier call ended before it computed the entry.
LrdOf(i, neighborhoods0, reach_dist0) ==
  IF \E j \in SeqElems(neighborhoods0[i]) : j \notin DOMAIN reach_dist0[i]
  THEN [err |-> "KeyError", value |-> EmptyList]
  ELSE LrdQuotient(Len(neighborhoods0[i]),
                   SumDist([p \in 1..Len(neighborhoods0[i]) |->
                              reach_dist0[i][neighborhoods0[i][p]]]))

\* lines 435-437 with results[i] the value line 436 computes for i.  A set
\* of small ints is iterated in increasing order; the loop stops at the first
\* error, leaving the values it set.
LrdAssigned(results, local_reach_dist) ==
  [err |-> LoopError(results),
   local_reach |-> DictUpdate(local_reach_dist,
                              [i \in Done(results) |-> results[i].value])]

calc_local_reach_dist(Set, neighborhoods0, reach_dist0, local_reach_dist) ==
  LrdAssigned(NewDict([i \in Set |-> LrdOf(i, neighborhoods0, reach_dist0)]),
              local_reach_dist)

\* ---- calc_lof -----------------------------------------------------------
\* sum(terms) / (n * lrd): adding a [] slot to a number, or dividing by a
\* list, raises TypeError
LofQuotient(terms, n, lrd) ==
  IF \E p \in 1..Len(terms) : terms[p] = EmptyList
  THEN [err |-> "TypeError", value |-> EmptyList]
  ELSE IF lrd = EmptyList
  THEN [err |-> "TypeError", value |-> EmptyList]
  ELSE IF n * lrd[1] = 0
  THEN [err |-> "ZeroDivisionError", value |-> EmptyList]
  ELSE [err |-> "none", value |-> FracDiv(SumFrac(terms), Frac(n * lrd[1], lrd[2]))]

\* lines 444-445: sum([local_reach[j] for j in neighborhoods[i]])
\*                  / (len(neighborhoods[i]) * local_reach[i])
LofOf(i, neighborhoods0, local_reach0) ==
  LofQuotient([p \in 1..Len(neighborhoods0[i]) |-> local_reach0[neighborhoods0[i][p]]],
              Len(neighborhoods0[i]), local_reach0[i])

\* mutant: the values are stored under the positions of an enumeration of
\* the set instead of its identities
LofAssignedByPosition(results, lof0) ==
  [err |-> LoopError(results),
   lof |-> DictUpdate(lof0,
             [p \in {Cardinality({j \in Done(results) : j < i}) : i \in Done(results)} |->
                results[CHOOSE i \in Done(results) :
                          Cardinality({j \in Done(results) : j < i}) = p].value])]

\* lines 443-445 with results[i] the value lines 444-445 compute for i
LofAssigned(results, lof0) ==
  [err |-> LoopError(results),
   lof |-> DictUpdate(lof0, [i \in Done(results) |-> results[i].value])]

calc_lof(Set, neighborhoods0, local_reach0, lof0) ==
  LofAssigned(NewDict([i \in Set |-> LofOf(i, neighborhoods0, local_reach0)]), lof0)

\* ---- the model object ---------------------------------------------------
\* the persisted containers of an ILOF instance, as one record
Self == [nn |-> nn, count |-> count, neighborhoods |-> neighborhoods,
         rev_neighborhoods |-> rev_neighborhoods, k_dist |-> k_dist,
         reach_dist |-> reach_dist, dist_dict |-> dist_dict,
         local_reach |-> local_reach, lof |-> lof]

NoSets == [Set_new_points |-> {}, Set_rev_neighbors |-> {},
           Set_upd_lrd |-> {}, Set_upd_lof |-> {}]

\* what the verbose channel prints: <<"equal", n>> and <<"nodata", 0>>
Printed(equal, empty, vb) ==
  (IF equal # 0 /\ vb THEN << <<"equal", equal>> >> ELSE <<>>)
  \o (IF empty /\ vb THEN << <<"nodata", 0>> >> ELSE <<>>)

\* ---- the pipeline of learn and score_one --------------------------------
\* Lines 154-194 and 224-264 make the same calls on the same objects: every
\* container handed to expand_objects is the instance's own, and is changed
\* in place.  The two differ in one binding: learn stores the dict returned
\* by initial_calculations in self.dist_dict (commit = TRUE), score_one binds
\* it to a local name and self.dist_dict stays the dict changed in place.
\* An exception ends the call where it is raised; what was changed in place
\* before stays changed.  Each stage below takes the results of the stages
\* before it: e of expand_objects, ic of initial_calculations, ds of
\* define_sets, reach of the two reachability passes, lr of
\* calc_local_reach_dist, lo of calc_lof.
StageResult(e, ic, ds, err, dist, reach, lrd, lofs) ==
  [self |-> [nn |-> e.nn, count |-> e.count, neighborhoods |-> ic.neighborhoods,
             rev_neighborhoods |-> ic.rev_neighborhoods, k_dist |-> ic.k_dist,
             reach_dist |-> reach, dist_dict |-> dist,
             local_reach |-> lrd, lof |-> lofs],
   err |-> err, sets |-> ds, n_x |-> e.n_x, n_new |-> e.n_new,
   new_distances |-> ic.new_distances]

\* lines 194 / 264
StageLof(e, ic, ds, dist, reach, lr, lo) ==
  StageResult(e, ic, ds, lo.err, dist, reach, lr.local_reach, lo.lof)

\* lines 190-191 / 260-261
StageLrd(e, ic, ds, dist, reach, lr) ==
  IF lr.err # "none"
  THEN StageResult(e, ic, ds, lr.err, dist, reach, lr.local_reach, e.lof)
  ELSE StageLof(e, ic, ds, dist, reach, lr,
                calc_lof(ds.Set_upd_lof, ic.neighborhoods, lr.local_reach, e.lof))

\* lines 184-187 / 254-257
StageReach(e, ic, ds, dist, reach) ==
  StageLrd(e, ic, ds, dist, reach,
           calc_local_reach_dist(ds.Set_upd_lrd, ic.neighborhoods, reach, e.local_reach))

\* lines 180-181 / 250-251
StageSets(e, ic, ds, commit) ==
  StageReach(e, ic, ds, IF commit THEN ic.dist_ret ELSE ic.dist_dict,
    calc_reach_dist_otherpoints(ds.Set_rev_neighbors, ic.neighborhoods,
      ic.rev_neighborhoods,
      calc_reach_dist_newpoints(ds.Set_new_points, ic.neighborhoods,
                                ic.rev_neighborhoods, e.reach_dist,
                                ic.dist_ret, ic.k_dist),
      ic.dist_ret, ic.k_dist))

\* lines 176-177 / 246-247
StageInitial(e, ic, commit) ==
  IF ic.err # "none"
  THEN StageResult(e, ic, NoSets, ic.err, ic.dist_dict, e.reach_dist,
                   e.local_reach, e.lof)
  ELSE StageSets(e, ic,
                 define_sets(e.n_x, e.n_new, ic.neighborhoods, ic.rev_neighborhoods),
                 commit)

\* lines 154-173 / 224-243
StageExpand(e, k, commit) ==
  StageInitial(e,
               initial_calculations(e.nn, e.n_x, e.n_new, e.neighborhoods,
                                    e.rev_neighborhoods, e.k_dist, e.dist_dict, k),
               commit)

Pipeline(self, batch, k, commit) ==
  StageExpand(expand_objects(batch, self.nn, self.count, self.neighborhoods,
                             self.rev_neighborhoods, self.k_dist, self.reach_dist,
                             self.dist_dict, self.local_reach, self.lof),
              k, commit)

\* ---- learn --------------------------------------------------------------
\* what a call leaves behind when it runs no pipeline
Idle(self, equal, out) ==
  [self |-> self, err |-> "none", equal |-> equal, out |-> out, sets |-> NoSets,
   n_x |-> Len(self.nn), n_new |-> 0, ran |-> FALSE, new_distances |-> {}]

\* what a call leaves behind when it ran the pipeline with result p
Ran(p, equal, out) ==
  [self |-> p.self, err |-> p.err, equal |-> equal, out |-> out, sets |-> p.sets,
   n_x |-> p.n_x, n_new |-> p.n_new, ran |-> TRUE,
   new_distances |-> p.new_distances]

\* mutant: the pipeline also runs on a batch that is empty after filtering
learn_filtered_always(self, ce, k, vb) ==
  Ran(Pipeline(self, ce.result, k, TRUE), ce.equal,
      Printed(ce.equal, Len(ce.result) = 0, vb))

\* lines 146-194, ce being the result of check_equal
learn_filtered(self, ce, k, vb) ==
  IF Len(ce.result) = 0
  THEN Idle(self, ce.equal, Printed(ce.equal, TRUE, vb))
  ELSE Ran(Pipeline(self, ce.result, k, TRUE), ce.equal, Printed(ce.equal, FALSE, vb))

learn(self, batch0, k, vb) ==
  learn_filtered(self, check_equal(batch0, self.nn), k, vb)

\* ---- score_one ----------------------------------------------------------
\* status is "list" when the call returns the list ret, "none" when it
\* returns None, "raise" when it ends in an exception

\* lines 265-268: X_score is emptied and the LOF of the new identities
\* returned, unless an exception ended the call before
score_return(r, kept) ==
  r @@ [X_score |-> IF r.err = "none" THEN <<>> ELSE kept,
        status |-> IF r.err = "none" THEN "list" ELSE "raise",
        ret |-> IF r.err = "none"
                THEN [i \in 1..r.n_new |-> r.self.lof[r.n_x + i - 1]]
                ELSE <<>>]

\* lines 216-268, ce being the result of check_equal on the buffer
score_filtered(self, ce, k, vb) ==
  IF Len(ce.result) = 0
  THEN Idle(self, ce.equal, Printed(ce.equal, TRUE, vb))
       @@ [X_score |-> ce.result, status |-> "none", ret |-> <<>>]
  ELSE score_return(Ran(Pipeline(self, ce.result, k, FALSE), ce.equal,
                        Printed(ce.equal, FALSE, vb)),
                    ce.result)

\* lines 212-268, buffer1 being X_score after the append of line 212
score_buffered(self, buffer1, window_score, k, vb) ==
  IF Len(buffer1) < window_score
  THEN Idle(self, 0, <<>>) @@ [X_score |-> buffer1, status |-> "none", ret |-> <<>>]
  ELSE score_filtered(self, check_equal(buffer1, self.nn), k, vb)

score_one(self, buffer0, x, window_score, k, vb) ==
  score_buffered(self, Append(buffer0, x), window_score, k, vb)

\* ---- the state machine --------------------------------------------------
\* last records the most recent call: its name, the list handed to
\* check_equal (given), the argument x and window_score of the single
\* observation calls, and what the call computed and returned.  raised is
\* TRUE once a call has ended in an exception.
CallRecord(op, given, x, ws, r, status, ret) ==
  [op |-> op, given |-> given, x |-> x, ws |-> ws, err |-> r.err,
   equal |-> r.equal, out |-> r.out, sets |-> r.sets, n_x |-> r.n_x,
   n_new |-> r.n_new, ran |-> r.ran, new_distances |-> r.new_distances,
   status |-> status, ret |-> ret]

\* lines 104-116: the containers of a new instance
InitObjects ==
  /\ X_batch = <<>>
  /\ X_score = <<>>
  /\ dist_dict = <<>>
  /\ neighborhoods = <<>>
  /\ rev_neighborhoods = <<>>
  /\ k_dist = <<>>
  /\ reach_dist = <<>>
  /\ lof = <<>>
  /\ local_reach = <<>>
  /\ nn = <<>>
  /\ count = 0
  /\ last = [op |-> "init", given |-> <<>>, x |-> 0, ws |-> 0, err |-> "none",
             equal |-> 0, out |-> <<>>, sets |-> NoSets, n_x |-> 0, n_new |-> 0,
             ran |-> FALSE, new_distances |-> {}, status |-> "none", ret |-> <<>>]
  /\ raised = FALSE

\* lines 102 and 104: a valid n_neighbors and the default warm_up
Init ==
  /\ InitObjects
  /\ n_neighbors \in 1..MaxK
  /\ warm_up = DefaultWarmUp

Commit(s) ==
  /\ nn' = s.nn
  /\ count' = s.count
  /\ neighborhoods' = s.neighborhoods
  /\ rev_neighborhoods' = s.rev_neighborhoods
  /\ k_dist' = s.k_dist
  /\ reach_dist' = s.reach_dist
  /\ dist_dict' = s.dist_dict
  /\ local_reach' = s.local_reach
  /\ lof' = s.lof

Batches(P) == UNION {[1..n -> P] : n \in 0..MaxBatch}

\* the store holds at most MaxStore observations after batch is stored
Fits(batch) == Len(nn) + Len(check_equal(batch, nn).result) <= MaxStore

\* learn_many(X_batch): the observations of column 0, handed to learn
learn_many_in(batches) ==
  \E batch \in batches :
    \E r \in {learn(Self, batch, n_neighbors, verbose)} :
      /\ Commit(r.self)
      /\ last' = CallRecord("learn_many", batch, 0, 0, r,
                            IF r.err = "none" THEN "none" ELSE "raise", <<>>)
      /\ raised' = (raised \/ r.err # "none")
      /\ UNCHANGED <<X_batch, X_score, n_neighbors, warm_up>>

\* learn_one(x), lines 137-140; buffer1 is X_batch after the append
learn_one_flush(x, buffer1) ==
  /\ Fits(buffer1)
  /\ \E r \in {learn(Self, buffer1, n_neighbors, verbose)} :
       /\ Commit(r.self)
       /\ X_batch' = IF r.err = "none" THEN <<>> ELSE buffer1
       /\ last' = CallRecord("learn_one", buffer1, x, 0, r,
                             IF r.err = "none" THEN "none" ELSE "raise", <<>>)
       /\ raised' = (raised \/ r.err # "none")

learn_one_buffer(x, buffer1) ==
  /\ X_batch' = buffer1
  /\ last' = CallRecord("learn_one", <<>>, x, 0, Idle(Self, 0, <<>>), "none", <<>>)
  /\ UNCHANGED <<nn, count, neighborhoods, rev_neighborhoods, k_dist,
                 reach_dist, dist_dict, local_reach, lof, raised>>

learn_one_from(P) ==
  \E x \in P :
    \E buffer1 \in {Append(X_batch, x)} :
      /\ Len(buffer1) <= MaxBuf
      /\ IF Len(nn) # 0 \/ Len(buffer1) > 1
         THEN learn_one_flush(x, buffer1)
         ELSE learn_one_buffer(x, buffer1)
      /\ UNCHANGED <<X_score, n_neighbors, warm_up>>

\* score_one(x, window_score)
score_one_call ==
  \E x \in Points, window_score \in 1..MaxWindow :
    /\ Len(X_score) + 1 >= window_score => Fits(Append(X_score, x))
    /\ \E r \in {score_one(Self, X_score, x, window_score, n_neighbors, verbose)} :
         /\ Len(r.X_score) <= MaxBuf
         /\ Commit(r.self)
         /\ X_score' = r.X_score
         /\ last' = CallRecord("score_one", Append(X_score, x), x, window_score, r,
                               r.status, r.ret)
         /\ raised' = (raised \/ r.err # "none")
         /\ UNCHANGED <<X_batch, n_neighbors, warm_up>>

learn_many_from(P) == learn_many_in({batch \in Batches(P) : Fits(batch)})

learn_many == learn_many_from(Points)

learn_one == learn_one_from(Points)

Next == learn_many \/ learn_one \/ score_one_call

Spec == Init /\ [][Next]_vars

\* Batch learning alone, over a longer line of observations.
learn_many_wide == learn_many_from(WidePoints)

NextLearn == learn_many_wide

SpecLearn == Init /\ [][NextLearn]_vars

\* Two tight pairs far apart: the vectors (0,0), (0,1), (10,0), (10,1),
\* each learned once with n_neighbors = 1, in any order, in batches of any
\* length or one at a time.
TightPairs == {Vec(0, 0), Vec(0, Unit), Vec(10 * Unit, 0), Vec(10 * Unit, Unit)}

\* the lists of distinct elements of S
Arrangements(S) ==
  {b \in UNION {[1..n -> S] : n \in 0..Cardinality(S)} :
     \A p, q \in DOMAIN b : p # q => b[p] # b[q]}

InitPairs ==
  /\ InitObjects
  /\ n_neighbors = 1
  /\ warm_up = DefaultWarmUp

\* the observations of S that no call has been given yet
Unlearned(S) == S \ (StoredVectors(nn) \cup SeqElems(X_batch))

learn_many_pairs == learn_many_in(Arrangements(Unlearned(TightPairs)))

learn_one_pairs == learn_one_from(Unlearned(TightPairs))

NextPairs == learn_many_pairs \/ learn_one_pairs

SpecPairs == InitPairs /\ [][NextPairs]_vars

\* A line of MaxLine + 1 observations, each learned once, in any order and
\* in batches of any length: the store grows beyond MaxStore here.
LinePoints == 0..MaxLine

learn_many_line == learn_many_in(Arrangements(Unlearned(LinePoints)))

NextLine == learn_many_line

SpecLine == Init /\ [][NextLine]_vars

\* Any configuration the constructor accepts: an n_neighbors that is zero or
\* negative with the default warm_up, or a valid n_neighbors with a warm_up
\* small enough for the store to reach it.
InitConfig ==
  /\ InitObjects
  /\ \/ n_neighbors \in (0 - MaxK)..0 /\ warm_up = DefaultWarmUp
     \/ n_neighbors \in 1..MaxK /\ warm_up \in 0..MaxWarmUp

NextConfig == learn_many \/ score_one_call

SpecConfig == InitConfig /\ [][NextConfig]_vars

\* ---- properties ---------------------------------------------------------
\* the committed model state: the observation store, its count and every
\* derived mapping
committed == <<nn, count, dist_dict, neighborhoods, rev_neighborhoods, k_dist,
               reach_dist, local_reach, lof>>

Ids == DOMAIN neighborhoods

Occurrences(s, v) == Cardinality({p \in 1..Len(s) : s[p] = v})

IsLearn(c) == c.op \in {"learn_many", "learn_one"}

\* C1: score_one never changes committed model state: on a model no call of
\* which has raised, the store, the count and all derived mappings are the
\* same after a score_one call that ran its pipeline and returned its scores
\* as before the call.
C1_ScoreLeavesStateUnchanged ==
  [][(~raised /\ last'.op = "score_one" /\ last'.status = "list")
       => UNCHANGED committed]_vars

\* C2: scoring is idempotent: on a model no call of which has raised,
\* score_one(x) called twice in a row with window_score = 1 (the first call
\* starting from an empty score buffer and returning a list of scores)
\* returns the same result both times.
C2_ScoreIdempotent ==
  [][(/\ ~raised
      /\ last.op = "score_one" /\ last.ws = 1 /\ last.given = <<last.x>>
      /\ last.status = "list"
      /\ last'.op = "score_one" /\ last'.ws = 1 /\ last'.x = last.x)
     => (last'.status = last.status /\ last'.ret = last.ret)]_vars

\* C3: reverse-neighborhood duality: for all stored identities i and j, j is
\* in rev_neighborhoods[i] exactly when i is in neighborhoods[j], and no
\* identity appears twice in a reverse neighborhood.
C3_RevDuality ==
  \A i \in Ids : \A j \in Ids :
    /\ (j \in SeqElems(rev_neighborhoods[i])) <=> (i \in SeqElems(neighborhoods[j]))
    /\ Occurrences(rev_neighborhoods[i], j) <= 1

C3_Witness ==
  /\ IsLearn(last) /\ last.ran /\ last.err = "none"
  /\ last.n_x >= 2
  /\ \E i \in Ids : Len(rev_neighborhoods[i]) >= 2
  /\ \E i \in Ids : \E j \in Ids :
       j \in SeqElems(neighborhoods[i]) /\ i \notin SeqElems(neighborhoods[j])

\* C4: neighborhood consistency: whenever i is in neighborhoods[j], the
\* stored distance dist_dict[j][i] exists and is at most k_dist[j].
C4_NeighborhoodConsistency ==
  \A j \in Ids : \A i \in SeqElems(neighborhoods[j]) :
    /\ i \in DOMAIN dist_dict[j]
    /\ k_dist[j] # inf
    /\ dist_dict[j][i] <= k_dist[j]

C4_Witness ==
  /\ IsLearn(last) /\ last.ran /\ last.err = "none"
  /\ last.n_x >= 2
  /\ \E j \in Ids : Len(neighborhoods[j]) >= 2
  /\ \E j \in Ids : Len(neighborhoods[j]) < Len(nn) - 1

DuplicateEntries(given, store) ==
  {p \in 1..Len(given) : \E q \in 1..Len(store) : store[q][1] = given[p]}

\* the position in given of its p-th entry that is not a duplicate
NthKept(given, store, p) ==
  CHOOSE g \in (1..Len(given)) \ DuplicateEntries(given, store) :
    Cardinality({h \in 1..g : h \notin DuplicateEntries(given, store)}) = p

C6_DuplicateFiltering ==
  [][IsLearn(last') =>
       LET given == last'.given
           dups == DuplicateEntries(given, nn)
       IN /\ last'.equal = Cardinality(dups)
          /\ (dups # {} /\ verbose) => last'.out[1] = <<"equal", Cardinality(dups)>>
          /\ (dups = {} \/ ~verbose) => \A m \in 1..Len(last'.out) : last'.out[m][1] # "equal"
          /\ Len(nn') = Len(nn) + Len(given) - Cardinality(dups)
          /\ count' = count + Len(given) - Cardinality(dups)
          /\ SubSeq(nn', 1, Len(nn)) = nn
          /\ \A p \in 1..(Len(nn') - Len(nn)) :
               nn'[Len(nn) + p][1] = given[NthKept(given, nn, p)]]_vars

C6_Witness ==
  /\ IsLearn(last) /\ last.ran
  /\ last.equal >= 1 /\ last.n_new >= 1
  /\ Len(last.given) = last.equal + last.n_new
  /\ last.given[1] \in StoredVectors(SubSeq(nn, 1, last.n_x))

\* C7: atomic commit per batch: a learn or score_one call that fails
\* part-way through its pipeline leaves the persisted state as it was
\* before the call.
C7_AtomicCommit ==
  [][last'.status = "raise" => UNCHANGED committed]_vars

\* C8: affected-set closure: with N the new identities and R the reverse
\* neighborhoods, define_sets returns Set_rev_neighbors = R(N),
\* Set_upd_lrd = R(N) \cup R(R(N)) \cup N and
\* Set_upd_lof = Set_upd_lrd \cup R(Set_upd_lrd).
RevOf(S) == UNION {SeqElems(rev_neighborhoods[i]) : i \in S}

C8_AffectedSetClosure ==
  (last.ran /\ last.err # "IndexError") =>
    LET N == {i \in Ids : last.n_x <= i /\ i < last.n_x + last.n_new}
        lrd == RevOf(N) \cup RevOf(RevOf(N)) \cup N
    IN /\ last.sets.Set_new_points = N
       /\ last.sets.Set_rev_neighbors = RevOf(N)
       /\ last.sets.Set_upd_lrd = lrd
       /\ last.sets.Set_upd_lof = lrd \cup RevOf(lrd)

C8_Witness ==
  /\ last.ran /\ last.err = "none"
  /\ last.sets.Set_rev_neighbors # {}
  /\ last.sets.Set_rev_neighbors # last.sets.Set_upd_lrd
  /\ last.sets.Set_upd_lrd # last.sets.Set_upd_lof

\* C9: learn_one buffering protocol: on a model no call of which has raised,
\* learn_one with an empty store and an empty buffer only buffers the
\* observation; otherwise it hands the whole buffer, in arrival order, to
\* learn as one batch, and the buffer is empty after that flush.
C9_LearnOneBuffering ==
  [][(~raised /\ last'.op = "learn_one") =>
       IF nn = <<>> /\ X_batch = <<>>
       THEN /\ X_batch' = <<last'.x>>
            /\ UNCHANGED committed
       ELSE /\ last'.given = Append(X_batch, last'.x)
            /\ X_batch' = <<>>]_vars

\* C10: score_one output: score_one runs its pipeline only when the score
\* buffer holds at least window_score observations; when it runs it
\* returns one LOF value per buffered observation that is not a stored
\* duplicate, in arrival order, each the LOF of that observation's new
\* identity, and the score buffer is empty afterwards.
C10_ScoreOneOutput ==
  [][last'.op = "score_one" =>
       LET buffer == Append(X_score, last'.x)
           fresh == Len(buffer) - Cardinality(DuplicateEntries(buffer, nn))
       IN IF Len(buffer) < last'.ws
          THEN /\ ~last'.ran /\ last'.status = "none" /\ X_score' = buffer
          ELSE /\ last'.ran <=> fresh > 0
               /\ last'.status = IF fresh > 0 THEN "list" ELSE "none"
               /\ Len(last'.ret) = fresh
               /\ \A p \in 1..fresh : last'.ret[p] = lof'[Len(nn) + p - 1]
               /\ \A p \in 1..fresh : last'.ret[p] # EmptyList
               /\ X_score' = <<>>]_vars

\* C11: recomputation touches exactly the affected sets: during a learn
\* call local_reach[i] is unchanged for every identity i outside Set_upd_lrd,
\* lof[i] is unchanged for every identity i outside Set_upd_lof, and
\* reach_dist[i][j] is unchanged (kept with its value, or still absent) for
\* every pair where neither i nor j is a new identity and j is not a reverse
\* neighbor of a new identity.
C11_FrameOfRecomputation ==
  [][IsLearn(last') =>
       /\ \A i \in DOMAIN local_reach :
            i \notin last'.sets.Set_upd_lrd => local_reach'[i] = local_reach[i]
       /\ \A i \in DOMAIN lof :
            i \notin last'.sets.Set_upd_lof => lof'[i] = lof[i]
       /\ \A i \in DOMAIN reach_dist : \A j \in DOMAIN reach_dist :
            (i < last'.n_x /\ j < last'.n_x /\ j \notin last'.sets.Set_rev_neighbors)
              => /\ (j \in DOMAIN reach_dist'[i]) <=> (j \in DOMAIN reach_dist[i])
                 /\ j \in DOMAIN reach_dist[i] => reach_dist'[i][j] = reach_dist[i][j]]_vars

\* a call that recomputed some earlier identities and left others alone
C11_Witness ==
  /\ IsLearn(last) /\ last.ran /\ last.err = "none" /\ last.n_x >= 2
  /\ \E i \in 0..(last.n_x - 1) : i \notin last.sets.Set_upd_lof
  /\ \E i \in 0..(last.n_x - 1) : i \in last.sets.Set_upd_lrd
  /\ \E i \in 0..(last.n_x - 1) : \E j \in DOMAIN reach_dist[i] :
       j < last.n_x /\ j \notin last.sets.Set_rev_neighbors

\* C12: invalid configuration fails fast: an instance constructed with
\* n_neighbors <= 0 or warm_up <= 0 never executes a learn or score call.
C12_InvalidConfigurationFailsFast ==
  (n_neighbors <= 0 \/ warm_up <= 0) => last.op = "init"

\* the distance of every new identity of the last call to every earlier
\* identity, earlier members of the same batch included
AllPairs ==
  {<<i, j, distance_func(nn[i + 1][1], nn[j + 1][1])>> :
     i \in last.n_x..(last.n_x + last.n_new - 1), j \in 0..(Len(nn) - 1)}
  \cap {t \in (0..Len(nn)) \X (0..Len(nn)) \X (0..MaxCoordWide) : t[2] < t[1]}

\* what the index answers for the new identities of the last call: for each
\* the n_neighbors nearest stored observations, itself left out
IndexAnswers ==
  {<<i, j, distance_func(nn[i + 1][1], nn[j + 1][1])>> :
     i \in last.n_x..(last.n_x + last.n_new - 1), j \in 0..(Len(nn) - 1)}
  \cap {t \in (0..Len(nn)) \X (0..Len(nn)) \X (0..MaxCoordWide) :
          /\ t[2] # t[1]
          /\ \E p \in 1..Len(search(nn, nn[t[1] + 1], n_neighbors)) :
               search(nn, nn[t[1] + 1], n_neighbors)[p][1] = t[2]}

C14_EmptyBatchNoOp ==
  [][(/\ last'.op = "learn_many" \/ (last'.op = "learn_one" /\ last'.given # <<>>)
      /\ DuplicateEntries(last'.given, nn) = 1..Len(last'.given))
     => /\ last'.status = "none" /\ last'.err = "none"
        /\ ~last'.ran
        /\ verbose => last'.out[Len(last'.out)] = <<"nodata", 0>>
        /\ UNCHANGED committed]_vars

\* a learn call on a store of two observations with a batch of entries
\* that are all stored already
C14_Witness ==
  /\ IsLearn(last) /\ Len(last.given) >= 1 /\ last.equal = Len(last.given)
  /\ Len(nn) >= 2 /\ last.n_x = Len(nn)

\* C15: two tight pairs: with n_neighbors = 1, once the four points (0,0),
\* (0,1), (10,0), (10,1) have been learned into an empty model by calls
\* none of which raised (as one batch, or one at a time through learn_one),
\* every point's neighborhood is its pair partner and every point's LOF
\* equals 1.
C15_TwoTightPairs ==
  (~raised /\ StoredVectors(nn) = TightPairs) =>
    \A p \in 1..Len(nn) :
      /\ Len(neighborhoods[p - 1]) = 1
      /\ nn[neighborhoods[p - 1][1] + 1][1] # nn[p][1]
      /\ nn[neighborhoods[p - 1][1] + 1][1] % Stride = nn[p][1] % Stride
      /\ lof[p - 1] = <<1, 1>>

\* the four points are stored, the last of them learned alone by learn_one
C15_Witness ==
  /\ ~raised /\ StoredVectors(nn) = TightPairs
  /\ last.op = "learn_one" /\ last.n_x = 3 /\ last.n_new = 1
  /\ nn[1][1] = Vec(0, 0) /\ nn[2][1] = Vec(0, Unit)
  /\ nn[3][1] = Vec(10 * Unit, 0) /\ nn[4][1] = Vec(10 * Unit, Unit)

\* C16: incremental k-nearest-neighbor exactness in brute-force mode: after
\* any sequence of learn calls none of which raised, for every stored
\* identity i, k_dist[i] is the k-th smallest distance from i to the other
\* stored observations (the largest when fewer than k others exist) and
\* neighborhoods[i] holds, once each, exactly the other identities whose
\* distance to i is at most k_dist[i], ties at the boundary included.
Dist(i, j) == distance_func(nn[i + 1][1], nn[j + 1][1])

Others(i) == (0..(Len(nn) - 1)) \ {i}

\* d is the k-th smallest of the distances from i to the other observations
IsKthSmallest(i, d, k) ==
  /\ \E j \in Others(i) : Dist(i, j) = d
  /\ Cardinality({j \in Others(i) : Dist(i, j) < d}) < k
  /\ Cardinality({j \in Others(i) : Dist(i, j) <= d}) >= k

C16_NearestNeighborExactness ==
  (~raised /\ Len(nn) < warm_up) =>
    \A i \in 0..(Len(nn) - 1) :
      /\ IsKthSmallest(i, k_dist[i], Min2(n_neighbors, Len(nn) - 1))
      /\ SeqElems(neighborhoods[i]) = {j \in Others(i) : Dist(i, j) <= k_dist[i]}
      /\ Len(neighborhoods[i]) = Cardinality(SeqElems(neighborhoods[i]))

\* a learn call on a store of two or more, after which a neighborhood holds
\* a tie and an earlier distance is gone from the pruned table
C16_Witness ==
  /\ ~raised /\ IsLearn(last) /\ last.ran /\ last.n_x >= 2
  /\ \E i \in Ids : Len(neighborhoods[i]) > n_neighbors
  /\ \E i \in 0..(last.n_x - 1) : \E j \in 0..(last.n_x - 1) :
       i # j /\ j \notin DOMAIN dist_dict[i]

\* C17: reachability-distance freshness: after every learn call of a model
\* no call of which has raised, for every stored identity i and every j in
\* neighborhoods[i], reach_dist[i][j] exists and equals
\* max(dist_dict[i][j], k_dist[j]) with the current k_dist[j].
C17_ReachDistFreshness ==
  ~raised =>
    \A i \in Ids : \A j \in SeqElems(neighborhoods[i]) :
      /\ j \in DOMAIN reach_dist[i]
      /\ j \in DOMAIN dist_dict[i]
      /\ reach_dist[i][j] = PyMax(dist_dict[i][j], k_dist[j])

\* a learn call in which an earlier identity j became a reverse neighbor of
\* a new one while an earlier identity i has j as a neighbor
C17_Witness ==
  /\ ~raised /\ IsLearn(last) /\ last.ran /\ last.n_x >= 2
  /\ \E j \in last.sets.Set_rev_neighbors : \E i \in SeqElems(rev_neighborhoods[j]) :
       /\ j < last.n_x /\ i < last.n_x
       /\ reach_dist[i][j] = dist_dict[i][j]
  /\ \E i \in Ids : \E j \in SeqElems(neighborhoods[i]) :
       reach_dist[i][j] > dist_dict[i][j]

\* C18: lrd freshness: after every learn call of a model no call of which
\* has raised, for every stored identity i (not only those in Set_upd_lrd)
\* the sum over j in neighborhoods[i] of max(distance(i, j), k_dist[j]) is
\* positive and local_reach[i] equals |neighborhoods[i]| divided by it, on
\* the current neighborhoods and k-distances.
Denominator(i) ==
  SumDist([p \in 1..Len(neighborhoods[i]) |->
             PyMax(Dist(i, neighborhoods[i][p]), k_dist[neighborhoods[i][p]])])

C18_LrdFreshness ==
  ~raised =>
    \A i \in Ids :
      /\ Denominator(i) > 0
      /\ local_reach[i] = Frac(Len(neighborhoods[i]), Denominator(i))

\* a learn call whose lrd set holds an earlier identity two hops from the
\* new ones and leaves another earlier identity out
C18_Witness ==
  /\ ~raised /\ IsLearn(last) /\ last.ran /\ last.n_x >= 2
  /\ \E i \in 0..(last.n_x - 1) : i \notin last.sets.Set_upd_lrd
  /\ \E i \in 0..(last.n_x - 1) :
       i \in last.sets.Set_upd_lrd /\ i \notin last.sets.Set_rev_neighbors

\* C19: LOF freshness: after every learn call of a model no call of which
\* has raised, for every stored identity i, lof[i] equals the sum over j in
\* neighborhoods[i] of local_reach[j], divided by |neighborhoods[i]| times
\* local_reach[i], on the current neighborhoods and lrd values.
C19_LofFreshness ==
  ~raised =>
    \A i \in Ids :
      /\ \A j \in SeqElems(neighborhoods[i]) \cup {i} :
           local_reach[j] # EmptyList /\ local_reach[j][1] > 0
      /\ lof[i] = FracDiv(SumFrac([p \in 1..Len(neighborhoods[i]) |->
                                     local_reach[neighborhoods[i][p]]]),
                          Frac(Len(neighborhoods[i]) * local_reach[i][1],
                               local_reach[i][2]))

\* a learn call whose LOF set holds an earlier identity that is not in the
\* lrd set, and whose LOF differs from 1
C19_Witness ==
  /\ ~raised /\ IsLearn(last) /\ last.ran /\ last.n_x >= 2
  /\ \E i \in 0..(last.n_x - 1) :
       /\ i \in last.sets.Set_upd_lof /\ i \notin last.sets.Set_upd_lrd
       /\ lof[i] # <<1, 1>>

\* C20: no zero denominator for separated points: in brute-force mode, when
\* a pipeline run leaves a store of at least two observations whose pairwise
\* distances are all positive, the run ends without an exception, every
\* stored identity has a non-empty neighborhood and a positive lrd
\* denominator, and every lrd and LOF the run computed is a positive number.
Separated ==
  \A p, q \in 1..Len(nn) : p # q => distance_func(nn[p][1], nn[q][1]) > 0

C20_NoZeroDenominator ==
  (last.ran /\ Len(nn) >= 2 /\ Len(nn) < warm_up /\ Separated) =>
    /\ last.err = "none"
    /\ \A i \in Ids : Len(neighborhoods[i]) >= 1 /\ Denominator(i) > 0
    /\ \A i \in last.sets.Set_upd_lrd :
         local_reach[i] # EmptyList /\ local_reach[i][1] > 0 /\ local_reach[i][2] > 0
    /\ \A i \in last.sets.Set_upd_lof :
         lof[i] # EmptyList /\ lof[i][1] > 0 /\ lof[i][2] > 0

\* a run that added observations to a store of one, left behind by a call
\* that raised, and a LOF other than 1 among its results
C20_Witness ==
  /\ last.ran /\ Len(nn) >= 3 /\ Separated
  /\ raised /\ last.n_x = 1
  /\ \E i \in last.sets.Set_upd_lof : lof[i] # <<1, 1>>

\* C21: no pipeline run on a singleton history: whenever learn_one or
\* score_one (with any window_score >= 1) has run the pipeline, the store
\* held at least two observations after expand_objects, every new identity
\* has a distance among the ones calculate_dist produced, and line 319 did
\* not raise IndexError.
C21_NoSingletonPipeline ==
  (last.ran /\ last.op \in {"learn_one", "score_one"}) =>
    /\ last.n_x + last.n_new >= 2
    /\ \A i \in Range(last.n_x, last.n_x + last.n_new) :
         \E t \in last.new_distances : i \in {t[1], t[2]}
    /\ last.err # "IndexError"

\* C22: duplicate-free store: on a model no call of which has raised, no two
\* stored observations are equal vectors, also when the equal vectors came
\* in one batch or were the two observations of the learn_one buffer at the
\* first flush.
C22_DuplicateFreeStore ==
  ~raised => \A p, q \in 1..Len(nn) : p # q => nn[p][1] # nn[q][1]

\* C23: batching independence in brute-force mode: pairwise distinct
\* observations learned into an empty model in a given order, split into
\* consecutive learn calls the first of which holds at least two (so that
\* no call has raised), end in the same neighborhoods and reverse
\* neighborhoods (as sets), k-distances, lrd values and LOF values for every
\* identity as the same observations learned in that order as one batch.
NewModel ==
  [nn |-> <<>>, count |-> 0, neighborhoods |-> <<>>, rev_neighborhoods |-> <<>>,
   k_dist |-> <<>>, reach_dist |-> <<>>, dist_dict |-> <<>>,
   local_reach |-> <<>>, lof |-> <<>>]

\* the model after one learn call on the stored observations, in store order
OneBatch ==
  learn(NewModel, [p \in 1..Len(nn) |-> nn[p][1]], n_neighbors, verbose)

SameDerived(a) ==
  /\ DOMAIN a.neighborhoods = DOMAIN neighborhoods
  /\ \A i \in DOMAIN neighborhoods :
       /\ SeqElems(a.neighborhoods[i]) = SeqElems(neighborhoods[i])
       /\ SeqElems(a.rev_neighborhoods[i]) = SeqElems(rev_neighborhoods[i])
  /\ a.k_dist = k_dist
  /\ a.local_reach = local_reach
  /\ a.lof = lof

C23_BatchingIndependence ==
  (~raised /\ Len(nn) >= 2 /\ Len(nn) < warm_up /\ Separated) =>
    /\ OneBatch.err = "none"
    /\ SameDerived(OneBatch.self)

\* four or more observations learned in at least two calls, the last of
\* which added to a store of at least two, with an earlier identity whose
\* LOF is not 1 and a neighborhood of more than n_neighbors identities
C23_Witness ==
  /\ ~raised /\ Separated /\ Len(nn) >= MaxLine
  /\ last.ran /\ last.n_x >= 2 /\ last.n_new >= 1
  /\ \E i \in 0..(last.n_x - 1) : lof[i] # <<1, 1>>
  /\ \E i \in Ids : Len(neighborhoods[i]) > n_neighbors

\* C24: slot alignment: after every expand_objects step and at the end of
\* every call, count equals the number of stored observations and
\* neighborhoods, rev_neighborhoods, k_dist, reach_dist, dist_dict,
\* local_reach and lof all have exactly the key set {0, ..., count-1}; every
\* identity held in a neighborhood, a reverse neighborhood, an inner
\* distance dict or an affected set of the last call is one of these keys,
\* and with n_neighbors >= 1 no call ends in a KeyError.
Aligned(s) ==
  /\ s.count = Len(s.nn)
  /\ \A keys \in {DOMAIN s.neighborhoods, DOMAIN s.rev_neighborhoods,
                   DOMAIN s.k_dist, DOMAIN s.reach_dist, DOMAIN s.dist_dict,
                   DOMAIN s.local_reach, DOMAIN s.lof} :
       keys = Range(0, s.count)

\* the objects expand_objects returns for the batches learn hands it
Expanded ==
  {expand_objects(check_equal(batch, nn).result, nn, count, neighborhoods,
                  rev_neighborhoods, k_dist, reach_dist, dist_dict,
                  local_reach, lof) :
     batch \in {b \in Batches(Points) : Len(check_equal(b, nn).result) > 0}}

Referenced ==
  UNION {SeqElems(neighborhoods[i]) \cup SeqElems(rev_neighborhoods[i])
           \cup DOMAIN dist_dict[i] \cup DOMAIN reach_dist[i] : i \in Ids}
    \cup last.sets.Set_new_points \cup last.sets.Set_rev_neighbors
    \cup last.sets.Set_upd_lrd \cup last.sets.Set_upd_lof

====
